---- MODULE Spec2Model ----
(***************************************************************************)
(* RaceBuf<T> (src/lib.rs): a fixed-length buffer over a Copy type T that  *)
(* is read and written by several threads through volatile accesses with   *)
(* no synchronisation.                                                     *)
(*                                                                         *)
(* A value v of T occupies `width` machine words, every word carrying v,   *)
(* so that an element whose words disagree is recognisably torn.  A        *)
(* volatile access of one element is one machine access per word, in an    *)
(* order the build chooses; a one-word T is accessed in a single step.     *)
(* The bounds check of get and set reads only the Vec's length, which no   *)
(* method changes, so a call up to its volatile access is one step.        *)
(*                                                                         *)
(* An unchecked access out of bounds is undefined behaviour: the process   *)
(* crashes, or goes on with whatever the access found.  into_inner takes   *)
(* self by value, so it runs only while no thread is inside a call.        *)
(*                                                                         *)
(* Specifications:                                                         *)
(*   Spec         threads calling len, get, set; into_inner                *)
(*   SpecRaw      the same with get_unchecked and set_unchecked            *)
(*   SpecStress   threads calling set(0, thread_id) and get(0), the        *)
(*                values stored being logged                               *)
(*   SpecOverlap  one set by one thread, one get by another                *)
(*   SpecNew      new(size) beside new_with_value(size, T::default())      *)
(*   SpecFair     Spec with one thread scheduled while it is in a call     *)
(*   SpecExclusive  sets on one index never overlapping, their values      *)
(*                logged; gets; into_inner                                 *)
(*   SpecDisjoint one set per thread, on different indices                 *)
(***************************************************************************)
EXTENDS Integers, Sequences, FiniteSets, TLC

\* ---------------------------------------------------------------- bounds
NThreads == 2
MaxLen == 2
MaxVal == 1

\* size_of::<T>() in machine words: a one-word T and a two-word T
Widths == {1, 2}

\* thread ids
Threads == 1..NThreads
Values == 0..MaxVal
Sizes == 0..MaxLen
\* usize arguments: every in-range index, and an out-of-range one for every length
Indices == 0..MaxLen

\* T::default()
DefaultT == 0

VARIABLES
    width,     \* words per element of T
    ctor,      \* the constructor call that built the buffer
    buf,       \* RaceBuf.0, the Vec<T>: a sequence of elements, each a sequence of words
    life,      \* "live" | "consumed" (into_inner has taken self)
    inner,     \* the Vec<T> into_inner returned
    fault,     \* whether the process has crashed, and in which method
    pc,        \* per thread: "idle" | "load" | "store" | "done"
    op,        \* per thread: the RaceBuf method it is in, or last returned from
    idx,       \* per thread: that call's idx
    value,     \* per thread: that call's value (set, set_unchecked), as words
    rem,       \* per thread: the words of the element its volatile access has still to touch
    tmp,       \* per thread: the words its read_volatile has loaded so far
    ret,       \* per thread: what its last call returned
    rt,        \* history: per thread, the value of its undisturbed set (round trip), or NoVal
    fresh,     \* history: no store has been performed since construction
    written,   \* history (kept by the scenarios that need it): per index, the values stored
    last,      \* history (kept by the scenarios that need it): per index, the value of the
               \* latest in-range set call on it, or NoVal
    twin       \* the twin-buffer scenario: two buffers driven by the same calls

vars == <<width, ctor, buf, life, inner, fault, pc, op, idx, value, rem, tmp, ret,
          rt, fresh, written, last, twin>>

\* ------------------------------------------------------------ data model
\* the bit pattern of value v of a w-word T
Bits(v, w) == [k \in 1..w |-> v]

\* every word sequence a w-word element can hold, torn ones included
Patterns(w) == [1..w -> Values]

Whole(e) == \A k \in DOMAIN e : e[k] = e[1]

\* no value of T
NoVal == 0 - 1

\* Option<T>, (), usize
None == [tag |-> "None"]
Some(e) == [tag |-> "Some", v |-> e]
Unit == [tag |-> "unit"]
Usize(n) == [tag |-> "usize", n |-> n]
NoRet == [tag |-> "none"]

\* Vec::with_capacity(size) followed by resize(size, value)
RECURSIVE resize(_, _, _)
resize(v, size, e) ==
    IF Len(v) >= size THEN SubSeq(v, 1, size) ELSE resize(Append(v, e), size, e)

\* an allocation one element short
new_with_value_short(size, e) == resize(<<>>, size - 1, e)

\* pub fn new_with_value(size: usize, value: T) -> RaceBuf<T>
new_with_value(size, e) == resize(<<>>, size, e)

\* a default constructor that fills with another value than T::default()
new_not_default(size, w) == new_with_value(size, Bits(MaxVal, w))

\* pub fn new(size: usize) -> RaceBuf<T>
new(size, w) == new_with_value(size, Bits(DefaultT, w))

\* a wrapper that loses the Vec's last element
from_vec_dropping(vec) == SubSeq(vec, 1, Len(vec) - 1)

\* pub fn from_vec(vec: Vec<T>) -> RaceBuf<T>
from_vec(vec) == vec

\* a Vec that lost its last element on the way out
into_inner_truncated(self) == SubSeq(self, 1, Len(self) - 1)

\* pub fn into_inner(self) -> Vec<T>
into_inner(self) == self

\* a length that counts one element too many
len_one_more(self) == Len(self) + 1

\* pub fn len(&self) -> usize
len(self) == Len(self)

\* a bounds check that lets idx = len() through
OutOfBoundsOffByOne(self, i) == i > len(self)

\* a bounds check that turns the last element away
OutOfBoundsLastToo(self, i) == i + 1 >= len(self)

\* the bounds check of get and set: the index is rejected
OutOfBounds(self, i) == i >= len(self)

\* the pointer as_ptr().offset(i) designates an element of the Vec's allocation
InAllocation(self, i) == i < Len(self)

\* a pointer that is never advanced: every idx designates the first element
offset_base(i) == 1

\* self.0.as_ptr().offset(idx): the element the pointer designates
offset(i) == i + 1

\* get_unchecked, set_unchecked, get and set run to completion with no access by another
\* thread in between: the element read, and the buffer left behind
get_unchecked(self, i) == self[offset(i)]

set_unchecked(self, i, e) == [self EXCEPT ![offset(i)] = e]

get(self, i) == IF OutOfBounds(self, i) THEN None ELSE Some(get_unchecked(self, i))

set(self, i, e) == IF OutOfBounds(self, i) THEN self ELSE set_unchecked(self, i, e)

\* every Vec<T> a caller can hand to from_vec
Vecs(w) == UNION {[1..n -> {Bits(v, w) : v \in Values}] : n \in Sizes}

Checked == {"get", "set"}
Unchecked == {"get_unchecked", "set_unchecked"}

NoFault == [kind |-> "none", by |-> "none"]

NoTwin == [a |-> <<>>, b |-> <<>>, call |-> <<>>, ra |-> NoRet, rb |-> NoRet]

\* ------------------------------------------------------------ construction
Ctors(w) ==
    {[kind |-> "new", size |-> n] : n \in Sizes}
    \cup {[kind |-> "new_with_value", size |-> n, value |-> v] : n \in Sizes, v \in Values}
    \cup {[kind |-> "from_vec", vec |-> s] : s \in Vecs(w)}

\* the RaceBuf the constructor call c returns
Construct(c, w) ==
    CASE c.kind = "new" -> new(c.size, w)
      [] c.kind = "new_with_value" -> new_with_value(c.size, Bits(c.value, w))
      [] c.kind = "from_vec" -> from_vec(c.vec)

InitBuffer ==
    /\ width \in Widths
    /\ ctor \in Ctors(width)
    /\ buf = Construct(ctor, width)
    /\ life = "live"
    /\ inner = <<>>
    /\ fault = NoFault
    /\ pc = [t \in Threads |-> "idle"]
    /\ op = [t \in Threads |-> "none"]
    /\ idx = [t \in Threads |-> 0]
    /\ value = [t \in Threads |-> Bits(0, width)]
    /\ rem = [t \in Threads |-> {}]
    /\ tmp = [t \in Threads |-> Bits(0, width)]
    /\ ret = [t \in Threads |-> NoRet]
    /\ rt = [t \in Threads |-> NoVal]
    /\ fresh = TRUE
    /\ written = [i \in 0..(Len(buf) - 1) |-> {}]
    /\ last = [i \in 0..(Len(buf) - 1) |-> NoVal]

Init == InitBuffer /\ twin = NoTwin

\* ------------------------------------------------------------ calls
\* thread t holds a &RaceBuf and is between calls
Callable(t) ==
    /\ life = "live"
    /\ fault.kind # "crash"
    /\ pc[t] \in {"idle", "done"}

\* thread t returns r from method o called with idx i
Return(t, o, i, r) ==
    /\ pc' = [pc EXCEPT ![t] = "done"]
    /\ op' = [op EXCEPT ![t] = o]
    /\ idx' = [idx EXCEPT ![t] = i]
    /\ value' = [value EXCEPT ![t] = Bits(0, width)]
    /\ rem' = [rem EXCEPT ![t] = {}]
    /\ tmp' = [tmp EXCEPT ![t] = Bits(0, width)]
    /\ ret' = [ret EXCEPT ![t] = r]

\* thread t enters the volatile access (p = "load" or "store") of method o
Enter(t, o, i, e, p) ==
    /\ pc' = [pc EXCEPT ![t] = p]
    /\ op' = [op EXCEPT ![t] = o]
    /\ idx' = [idx EXCEPT ![t] = i]
    /\ value' = [value EXCEPT ![t] = e]
    /\ rem' = [rem EXCEPT ![t] = 1..width]
    /\ tmp' = [tmp EXCEPT ![t] = Bits(0, width)]
    /\ ret' = [ret EXCEPT ![t] = NoRet]

\* an access of thread t ends every other thread's undisturbed round trip
Disturb(t) == [u \in Threads |-> IF u = t THEN rt[u] ELSE NoVal]

\* pub fn len(&self) -> usize
Len_(t) ==
    /\ Callable(t)
    /\ Return(t, "len", 0, Usize(len(buf)))
    /\ rt' = [rt EXCEPT ![t] = NoVal]
    /\ UNCHANGED <<width, ctor, buf, life, inner, fault, fresh, written, last, twin>>

\* pub fn get(&self, idx: usize) -> Option<T>
Get(t, i) ==
    /\ Callable(t)
    /\ IF OutOfBounds(buf, i)
         THEN Return(t, "get", i, None)
         ELSE Enter(t, "get", i, Bits(0, width), "load")
    /\ rt' = [rt EXCEPT ![t] =
                IF pc[t] = "done" /\ op[t] = "set" /\ idx[t] = i THEN rt[t] ELSE NoVal]
    /\ UNCHANGED <<width, ctor, buf, life, inner, fault, fresh, written, last, twin>>

\* pub unsafe fn get_unchecked(&self, idx: usize) -> T
GetUnchecked(t, i) ==
    /\ Callable(t)
    /\ Enter(t, "get_unchecked", i, Bits(0, width), "load")
    /\ rt' = [rt EXCEPT ![t] = NoVal]
    /\ UNCHANGED <<width, ctor, buf, life, inner, fault, fresh, written, last, twin>>

\* pub fn set(&self, idx: usize, value: T)
Set(t, i, v) ==
    /\ Callable(t)
    /\ IF OutOfBounds(buf, i)
         THEN Return(t, "set", i, Unit)
         ELSE Enter(t, "set", i, Bits(v, width), "store")
    /\ rt' = [rt EXCEPT ![t] = IF OutOfBounds(buf, i) THEN NoVal ELSE v]
    /\ UNCHANGED <<width, ctor, buf, life, inner, fault, fresh, written, twin>>

\* pub unsafe fn set_unchecked(&self, idx: usize, value: T)
SetUnchecked(t, i, v) ==
    /\ Callable(t)
    /\ Enter(t, "set_unchecked", i, Bits(v, width), "store")
    /\ rt' = [rt EXCEPT ![t] = NoVal]
    /\ UNCHANGED <<width, ctor, buf, life, inner, fault, fresh, written, last, twin>>

\* ------------------------------------------------------------ volatile accesses
\* thread t leaves its volatile access when no word remains, returning r
Step(t, k, r) ==
    /\ rem' = [rem EXCEPT ![t] = @ \ {k}]
    /\ IF rem[t] = {k}
         THEN /\ pc' = [pc EXCEPT ![t] = "done"]
              /\ ret' = [ret EXCEPT ![t] = r]
              /\ value' = [value EXCEPT ![t] = Bits(0, width)]
         ELSE UNCHANGED <<pc, ret, value>>

\* a load the build elides: the word is never fetched from the buffer
ReadElided(t, k) ==
    /\ fault.kind # "crash"
    /\ pc[t] = "load"
    /\ InAllocation(buf, idx[t])
    /\ k \in rem[t]
    /\ tmp' = [tmp EXCEPT ![t] = Bits(0, width)]
    /\ Step(t, k, IF op[t] = "get" THEN Some(tmp[t]) ELSE tmp[t])
    /\ rt' = Disturb(t)
    /\ UNCHANGED <<width, ctor, buf, life, inner, fault, op, idx, fresh, written, last, twin>>

\* a destructive load: the word read is cleared in the buffer
ReadClearing(t, k) ==
    /\ fault.kind # "crash"
    /\ pc[t] = "load"
    /\ InAllocation(buf, idx[t])
    /\ k \in rem[t]
    /\ LET e == [tmp[t] EXCEPT ![k] = get_unchecked(buf, idx[t])[k]]
       IN /\ tmp' = [tmp EXCEPT ![t] = IF rem[t] = {k} THEN Bits(0, width) ELSE e]
          /\ Step(t, k, IF op[t] = "get" THEN Some(e) ELSE e)
    /\ buf' = set_unchecked(buf, idx[t], [get_unchecked(buf, idx[t]) EXCEPT ![k] = 0])
    /\ rt' = Disturb(t)
    /\ UNCHANGED <<width, ctor, life, inner, fault, op, idx, fresh, written, last, twin>>

\* a load that waits while another thread is storing to the same element
ReadWaiting(t, k) ==
    /\ fault.kind # "crash"
    /\ pc[t] = "load"
    /\ InAllocation(buf, idx[t])
    /\ k \in rem[t]
    /\ \A u \in Threads \ {t} : ~(pc[u] = "store" /\ idx[u] = idx[t])
    /\ LET e == [tmp[t] EXCEPT ![k] = get_unchecked(buf, idx[t])[k]]
       IN /\ tmp' = [tmp EXCEPT ![t] = IF rem[t] = {k} THEN Bits(0, width) ELSE e]
          /\ Step(t, k, IF op[t] = "get" THEN Some(e) ELSE e)
    /\ rt' = Disturb(t)
    /\ UNCHANGED <<width, ctor, buf, life, inner, fault, op, idx, fresh, written, last, twin>>

\* ptr::read_volatile(self.0.as_ptr().offset(idx)): the load of word k
ReadVolatile(t, k) ==
    /\ fault.kind # "crash"
    /\ pc[t] = "load"
    /\ InAllocation(buf, idx[t])
    /\ k \in rem[t]
    /\ LET e == [tmp[t] EXCEPT ![k] = get_unchecked(buf, idx[t])[k]]
       IN /\ tmp' = [tmp EXCEPT ![t] = IF rem[t] = {k} THEN Bits(0, width) ELSE e]
          /\ Step(t, k, IF op[t] = "get" THEN Some(e) ELSE e)
    /\ rt' = Disturb(t)
    /\ UNCHANGED <<width, ctor, buf, life, inner, fault, op, idx, fresh, written, last, twin>>

\* a store the build elides: the word never reaches the buffer
WriteElided(t, k) ==
    /\ fault.kind # "crash"
    /\ pc[t] = "store"
    /\ InAllocation(buf, idx[t])
    /\ k \in rem[t]
    /\ Step(t, k, Unit)
    /\ rt' = Disturb(t)
    /\ fresh' = FALSE
    /\ UNCHANGED <<width, ctor, buf, life, inner, fault, op, idx, tmp, last, twin>>

\* ptr::write_volatile(self.0.as_ptr().offset(idx) as *mut T, value): the store of word k
WriteVolatile(t, k) ==
    /\ fault.kind # "crash"
    /\ pc[t] = "store"
    /\ InAllocation(buf, idx[t])
    /\ k \in rem[t]
    /\ buf' = set_unchecked(buf, idx[t],
                           [get_unchecked(buf, idx[t]) EXCEPT ![k] = value[t][k]])
    /\ Step(t, k, Unit)
    /\ rt' = Disturb(t)
    /\ fresh' = FALSE
    /\ UNCHANGED <<width, ctor, life, inner, fault, op, idx, tmp, last, twin>>

\* read_volatile through a pointer past the allocation: undefined behaviour.
\* The process dies, or the load yields whatever lies there.
ReadOutOfBounds(t) ==
    /\ fault.kind # "crash"
    /\ pc[t] = "load"
    /\ ~InAllocation(buf, idx[t])
    /\ \/ /\ fault' = [kind |-> "crash", by |-> op[t]]
          /\ UNCHANGED <<pc, rem, ret>>
       \/ /\ UNCHANGED fault
          /\ \E e \in Patterns(width) :
                ret' = [ret EXCEPT ![t] = IF op[t] = "get" THEN Some(e) ELSE e]
          /\ pc' = [pc EXCEPT ![t] = "done"]
          /\ rem' = [rem EXCEPT ![t] = {}]
    /\ value' = [value EXCEPT ![t] = Bits(0, width)]
    /\ rt' = Disturb(t)
    /\ UNCHANGED <<width, ctor, buf, life, inner, op, idx, tmp, fresh, written, last, twin>>

\* write_volatile through a pointer past the allocation: undefined behaviour.
\* The process dies, or the store lands outside the buffer's elements.
WriteOutOfBounds(t) ==
    /\ fault.kind # "crash"
    /\ pc[t] = "store"
    /\ ~InAllocation(buf, idx[t])
    /\ \/ /\ fault' = [kind |-> "crash", by |-> op[t]]
          /\ UNCHANGED <<pc, rem, ret>>
       \/ /\ UNCHANGED fault
          /\ ret' = [ret EXCEPT ![t] = Unit]
          /\ pc' = [pc EXCEPT ![t] = "done"]
          /\ rem' = [rem EXCEPT ![t] = {}]
    /\ value' = [value EXCEPT ![t] = Bits(0, width)]
    /\ rt' = Disturb(t)
    /\ UNCHANGED <<width, ctor, buf, life, inner, op, idx, tmp, fresh, written, last, twin>>

\* the set call, logged: an in-range call's value becomes the latest set on its index
SetLogged(t, i, v) ==
    /\ Set(t, i, v)
    /\ last' = IF i < Len(buf) THEN [last EXCEPT ![i] = v] ELSE last

\* the store as the checked interface's specification sees it: no log is kept
Store(t, k) == WriteVolatile(t, k) /\ UNCHANGED written

\* the store, logged: the value it carries joins the values stored at its index
StoreLogged(t, k) ==
    /\ WriteVolatile(t, k)
    /\ written' = [written EXCEPT ![idx[t]] = @ \cup {value[t][k]}]

\* pub fn into_inner(self) -> Vec<T>: self is moved, so no borrow of it is in use
IntoInner ==
    /\ life = "live"
    /\ fault.kind # "crash"
    /\ \A t \in Threads : pc[t] \in {"idle", "done"}
    /\ life' = "consumed"
    /\ inner' = into_inner(buf)
    /\ UNCHANGED <<width, ctor, buf, fault, pc, op, idx, value, rem, tmp, ret, rt, fresh, written,
                   last, twin>>

\* the checked interface
Next ==
    \/ \E t \in Threads : Len_(t)
    \/ \E t \in Threads, i \in Indices : Get(t, i)
    \/ \E t \in Threads, i \in Indices, v \in Values : Set(t, i, v) /\ UNCHANGED last
    \/ \E t \in Threads, k \in 1..width : ReadVolatile(t, k)
    \/ \E t \in Threads, k \in 1..width : Store(t, k)
    \/ IntoInner

Spec == Init /\ [][Next]_vars

\* one machine access of the volatile access thread t is in
Access(t) == \E k \in 1..width : ReadVolatile(t, k) \/ Store(t, k)

\* the thread whose calls are followed
Caller == NThreads

\* the checked interface with the caller scheduled again and again while it is inside a
\* call; no other thread is required ever to take a step
SpecFair == Spec /\ WF_vars(Access(Caller))

\* the whole interface, unchecked accessors included
NextRaw ==
    \/ \E t \in Threads : Len_(t)
    \/ \E t \in Threads, i \in Indices : Get(t, i)
    \/ \E t \in Threads, i \in Indices : GetUnchecked(t, i)
    \/ \E t \in Threads, i \in Indices, v \in Values : Set(t, i, v) /\ UNCHANGED last
    \/ \E t \in Threads, i \in Indices, v \in Values : SetUnchecked(t, i, v)
    \/ \E t \in Threads, k \in 1..width : ReadVolatile(t, k)
    \/ \E t \in Threads, k \in 1..width : Store(t, k)
    \/ \E t \in Threads : ReadOutOfBounds(t)
    \/ \E t \in Threads : WriteOutOfBounds(t)
    \/ IntoInner

\* buffers of every length and element width, built by new_with_value
InitRaw == Init /\ ctor.kind = "new_with_value"

SpecRaw == InitRaw /\ [][NextRaw]_vars

\* the stress scenario: on a buffer with an element 0, every thread keeps calling
\* set(0, thread_id) or get(0); T is an integer type and holds the thread ids
InitStress == Init /\ len(buf) >= 1

NextStress ==
    \/ \E t \in Threads : Set(t, 0, t) /\ UNCHANGED last
    \/ \E t \in Threads : Get(t, 0)
    \/ \E t \in Threads, k \in 1..width : ReadVolatile(t, k)
    \/ \E t \in Threads, k \in 1..width : StoreLogged(t, k)

SpecStress == InitStress /\ [][NextStress]_vars

\* the overlap scenario: every element holds the value the buffer was built with; the
\* writer makes one set call and the reader one get call, in any interleaving
Writer == NThreads - 1
Reader == NThreads

InitOverlap == Init /\ ctor.kind = "new_with_value" /\ len(buf) >= 1

NextOverlap ==
    \/ \E i \in Indices, v \in Values : op[Writer] = "none" /\ Set(Writer, i, v) /\ UNCHANGED last
    \/ \E i \in Indices : op[Reader] = "none" /\ Get(Reader, i)
    \/ \E k \in 1..width : ReadVolatile(Reader, k)
    \/ \E k \in 1..width : StoreLogged(Writer, k)

SpecOverlap == InitOverlap /\ [][NextOverlap]_vars

\* the twin scenario: a buffer built by new(size) and one built by
\* new_with_value(size, T::default()) receive the same calls, one caller at a time
InitNew ==
    /\ InitBuffer
    /\ ctor.kind = "new"
    /\ twin = [a |-> buf,
               b |-> new_with_value(ctor.size, Bits(DefaultT, width)),
               call |-> <<>>, ra |-> NoRet, rb |-> NoRet]

TwinFrame ==
    UNCHANGED <<width, ctor, buf, life, inner, fault, pc, op, idx, value, rem, tmp, ret,
                rt, fresh, written, last>>

TwinLen ==
    /\ twin' = [twin EXCEPT !.call = <<"len">>,
                            !.ra = Usize(len(twin.a)), !.rb = Usize(len(twin.b))]
    /\ TwinFrame

TwinGet(i) ==
    /\ twin' = [twin EXCEPT !.call = <<"get", i>>,
                            !.ra = get(twin.a, i), !.rb = get(twin.b, i)]
    /\ TwinFrame

TwinSet(i, v) ==
    /\ twin' = [twin EXCEPT !.call = <<"set", i, v>>,
                            !.a = set(twin.a, i, Bits(v, width)),
                            !.b = set(twin.b, i, Bits(v, width)),
                            !.ra = Unit, !.rb = Unit]
    /\ TwinFrame

NextNew ==
    \/ TwinLen
    \/ \E i \in Indices : TwinGet(i)
    \/ \E i \in Indices, v \in Values : TwinSet(i, v)

SpecNew == InitNew /\ [][NextNew]_vars

\* no thread other than t is inside a store to element i
NoOtherWriter(t, i) == \A u \in Threads \ {t} : ~(pc[u] = "store" /\ idx[u] = i)

\* the exclusive-writer scenario: the callers see to it that a set on an index starts
\* only while no other set on that index is in progress; sets on different indices,
\* out-of-range sets and gets run at will, and into_inner ends the buffer's life
NextExclusive ==
    \/ \E t \in Threads, i \in Indices, v \in Values :
          NoOtherWriter(t, i) /\ SetLogged(t, i, v)
    \/ \E t \in Threads, i \in Indices : Get(t, i)
    \/ \E t \in Threads, k \in 1..width : ReadVolatile(t, k)
    \/ \E t \in Threads, k \in 1..width : Store(t, k)
    \/ IntoInner

SpecExclusive == Init /\ [][NextExclusive]_vars

\* the disjoint-writers scenario: on a buffer of two elements or more every thread makes
\* one in-range set call, on an index no other thread sets, the calls overlapping at will
InitDisjoint == Init /\ len(buf) >= 2

NextDisjoint ==
    \/ \E t \in Threads, i \in Indices, v \in Values :
          /\ op[t] = "none"
          /\ i < len(buf)
          /\ \A u \in Threads \ {t} : op[u] = "set" => idx[u] # i
          /\ SetLogged(t, i, v)
    \/ \E t \in Threads, k \in 1..width : Store(t, k)

SpecDisjoint == InitDisjoint /\ [][NextDisjoint]_vars

\* ------------------------------------------------------------ properties
\* C1: through get and set, whatever the indices and the interleaving, every element
\* load or store that is performed targets an index in [0, len), and the process
\* never crashes in a checked call; buffers of length 0 included.
C1_CheckedAccessInBounds ==
    /\ \A t \in Threads :
          pc[t] \in {"load", "store"} /\ op[t] \in Checked => idx[t] < Len(buf)
    /\ fault.kind = "crash" => fault.by \in Unchecked

\* a set stores to the last element while a get just past the end has been turned away
C1_Witness ==
    \E t, u \in Threads :
          /\ pc[t] = "store" /\ op[t] = "set" /\ idx[t] = Len(buf) - 1
          /\ pc[u] = "done" /\ op[u] = "get" /\ idx[u] = Len(buf) /\ ret[u] = None
          /\ fault.kind = "none"

\* the value element i was constructed with
InitialValue(i) == Construct(ctor, width)[offset(i)][1]

\* C2 as stated: in the stress scenario with a one-word T, every get(0) result is a
\* value some writer's store has written.
C2_OnlyWrittenValues ==
    \A t \in Threads :
        width = 1 /\ pc[t] = "done" /\ op[t] = "get"
        => \E v \in written[0] : ret[t] = Some(Bits(v, width))

\* C2, amended: in the stress scenario with a one-word T, every get(0) result is the
\* value element 0 was constructed with or a value some writer's store has written.
C2_WrittenOrInitialValues ==
    \A t \in Threads :
        width = 1 /\ pc[t] = "done" /\ op[t] = "get"
        => \E v \in written[0] \cup {InitialValue(0)} : ret[t] = Some(Bits(v, width))

\* two writers have stored their ids and a reader has observed the one that differs
\* from the constructed value
C2_Witness ==
    \E t \in Threads :
        /\ width = 1 /\ pc[t] = "done" /\ op[t] = "get"
        /\ Cardinality(written[0]) >= 2
        /\ \E v \in written[0] : v # InitialValue(0) /\ ret[t] = Some(Bits(v, width))

\* C3: round trip. From any reachable state of the buffer, a thread's in-range
\* set(i, v) followed directly by its get(i), with no access by another thread from
\* the start of the set to the return of the get, returns Some(v).
C3_RoundTrip ==
    \A t \in Threads :
        pc[t] = "done" /\ op[t] = "get" /\ rt[t] # NoVal
        => ret[t] = Some(Bits(rt[t], width))

\* a round trip on a two-word element that another thread's unfinished store had left
\* torn, with a value other than the constructed one
C3_Witness ==
    \E t, u \in Threads :
        /\ width = 2 /\ pc[t] = "done" /\ op[t] = "get" /\ rt[t] # NoVal
        /\ rt[t] # InitialValue(idx[t])
        /\ ret[t] = Some(buf[offset(idx[t])])
        /\ u # t /\ pc[u] = "store" /\ idx[u] = idx[t] /\ Cardinality(rem[u]) = 1

\* C4: while no store has been performed on a buffer built by new_with_value(size, v),
\* whatever size and v, every get(i) returns Some(v) for i < size and None for i >= size.
C4_NewWithValueGet ==
    \A t \in Threads :
        ctor.kind = "new_with_value" /\ fresh /\ pc[t] = "done" /\ op[t] = "get"
        => ret[t] = IF idx[t] < ctor.size THEN Some(Bits(ctor.value, width)) ELSE None

\* on a fresh buffer of the largest size and a non-default value, one get has returned
\* the last element and another has been turned away just past the end
C4_Witness ==
    \E t, u \in Threads :
        /\ ctor.kind = "new_with_value" /\ ctor.size = MaxLen /\ ctor.value # DefaultT
        /\ fresh
        /\ pc[t] = "done" /\ op[t] = "get" /\ idx[t] = ctor.size - 1
        /\ ret[t] = Some(Bits(ctor.value, width))
        /\ pc[u] = "done" /\ op[u] = "get" /\ idx[u] = ctor.size /\ ret[u] = None

\* thread t, between calls, makes in this step a call of method o whose idx is out of range
CallsOutOfRange(t, o) ==
    /\ pc[t] \in {"idle", "done"}
    /\ <<pc[t], op[t], idx[t], ret[t]>> # <<pc'[t], op'[t], idx'[t], ret'[t]>>
    /\ op'[t] = o
    /\ idx'[t] >= Len(buf)

\* the step leaves the buffer, its length, its owner and every other thread alone
NothingElseChanges(t) ==
    /\ buf' = buf
    /\ Len(buf') = Len(buf)
    /\ life' = life /\ inner' = inner /\ fault' = fault
    /\ \A u \in Threads \ {t} :
          <<pc'[u], op'[u], idx'[u], value'[u], rem'[u], tmp'[u], ret'[u]>>
              = <<pc[u], op[u], idx[u], value[u], rem[u], tmp[u], ret[u]>>

\* C5: set(idx, value) with idx >= len() is a silent no-op: no thread is ever inside the
\* store of such a set, and the call returns () at once leaving every element, the
\* length and every other thread as they were, whatever the other threads are doing.
C5_SetOutOfRangeNoOp ==
    /\ [](\A t \in Threads : pc[t] = "store" /\ op[t] = "set" => idx[t] < Len(buf))
    /\ [][\A t \in Threads :
            CallsOutOfRange(t, "set")
            => pc'[t] = "done" /\ ret'[t] = Unit /\ NothingElseChanges(t)]_vars

\* an out-of-range set has returned while another thread is half way through a store
\* to a two-word element
C5_Witness ==
    \E t, u \in Threads :
        /\ pc[t] = "done" /\ op[t] = "set" /\ idx[t] >= Len(buf) /\ ret[t] = Unit
        /\ Len(buf) >= 1
        /\ u # t /\ pc[u] = "store" /\ Cardinality(rem[u]) = 1 /\ width = 2

\* C6: a returned get(idx) is None exactly when idx >= len() and Some(..) otherwise; no
\* thread is ever inside the load of a get with idx >= len(), and such a call returns at
\* once leaving the buffer, its length and every other thread as they were.
C6_GetNoneIffOutOfRange ==
    /\ [](\A t \in Threads :
            op[t] = "get"
            => /\ pc[t] = "load" => idx[t] < Len(buf)
               /\ pc[t] = "done" => /\ ret[t] = None <=> idx[t] >= Len(buf)
                                    /\ idx[t] < Len(buf) => ret[t].tag = "Some")
    /\ [][\A t \in Threads :
            CallsOutOfRange(t, "get")
            => pc'[t] = "done" /\ ret'[t] = None /\ NothingElseChanges(t)]_vars

\* one get has been turned away just past the end and another has returned the last
\* element, on a buffer some store has changed
C6_Witness ==
    \E t, u \in Threads :
        /\ pc[t] = "done" /\ op[t] = "get" /\ idx[t] = Len(buf) /\ ret[t] = None
        /\ pc[u] = "done" /\ op[u] = "get" /\ idx[u] = Len(buf) - 1
        /\ ret[u] = Some(buf[offset(idx[u])])
        /\ ~fresh

\* the size the buffer was constructed with
ConstructedSize == IF ctor.kind = "from_vec" THEN Len(ctor.vec) ELSE ctor.size

\* C7: until the buffer is consumed its length is the size N it was constructed with,
\* whatever get and set calls the threads have made or are making, and every len()
\* returns exactly N.
C7_LenFixed ==
    life = "live"
    => /\ Len(buf) = ConstructedSize
       /\ \A t \in Threads :
             pc[t] = "done" /\ op[t] = "len" => ret[t] = Usize(ConstructedSize)

\* len() has returned the size of a largest buffer after stores have changed it, while
\* another thread is inside a store
C7_Witness ==
    \E t, u \in Threads :
        /\ life = "live" /\ ~fresh /\ ConstructedSize = MaxLen
        /\ pc[t] = "done" /\ op[t] = "len" /\ ret[t] = Usize(MaxLen)
        /\ pc[u] = "store"

\* C8: round trip. For every sequence seq, the empty one included, from_vec(seq) followed
\* by into_inner() with no store in between (so also directly) returns a sequence equal
\* to seq: same length, same element at every position.
C8_FromVecIntoInner ==
    ctor.kind = "from_vec" /\ life = "consumed" /\ fresh
    => /\ inner = ctor.vec
       /\ Len(inner) = Len(ctor.vec)
       /\ \A i \in 1..Len(ctor.vec) : inner[i] = ctor.vec[i]

\* into_inner() directly after from_vec of a longest sequence of distinct two-word elements
C8_Witness ==
    /\ ctor.kind = "from_vec" /\ life = "consumed"
    /\ \A t \in Threads : op[t] = "none"
    /\ width = 2 /\ Len(ctor.vec) = MaxLen /\ ctor.vec[1] # ctor.vec[MaxLen]
    /\ inner = ctor.vec

\* into_inner() directly after from_vec of the empty sequence
C8_WitnessEmpty ==
    /\ ctor.kind = "from_vec" /\ life = "consumed"
    /\ \A t \in Threads : op[t] = "none"
    /\ ctor.vec = <<>> /\ inner = <<>>

\* C9: for every size, the buffer new(size) returns and the buffer
\* new_with_value(size, T::default()) returns have the same length and contents, and
\* after any same sequence of len, get and set calls on both they still do, and the last
\* call returned the same on both.
C9_NewIsNewWithDefault ==
    /\ Len(twin.a) = Len(twin.b)
    /\ twin.a = twin.b
    /\ twin.ra = twin.rb

\* both buffers, of the largest size and two-word elements, have returned the same
\* non-default value from a get after sets changed them
C9_Witness ==
    /\ width = 2 /\ Len(twin.a) = MaxLen
    /\ twin.call = <<"get", MaxLen - 1>>
    /\ twin.ra = Some(Bits(MaxVal, width)) /\ twin.rb = twin.ra
    /\ twin.a[1] = Bits(DefaultT, width)

\* C10: when the one get(i) meets at most the one set(i, new) on an element holding old,
\* overlapping it or not, it returns Some(e) where every word of e is the word of old or
\* the word of new (new only once the set has stored): old, new, or for a two-word T a
\* mixture of the two, never a word of neither.
C10_OldNewOrMixture ==
    pc[Reader] = "done" /\ op[Reader] = "get" /\ idx[Reader] < Len(buf)
    => /\ ret[Reader].tag = "Some"
       /\ Cardinality(written[idx[Reader]]) <= 1
       /\ \A k \in 1..width :
             ret[Reader].v[k] \in {ctor.value} \cup written[idx[Reader]]
       /\ width = 1 => Whole(ret[Reader].v)

\* the torn outcome: on a two-word element the get has returned one word of old and one
\* word of new, having overlapped the set
C10_Witness ==
    /\ width = 2
    /\ pc[Reader] = "done" /\ op[Reader] = "get" /\ idx[Reader] < Len(buf)
    /\ op[Writer] = "set" /\ idx[Writer] = idx[Reader]
    /\ ret[Reader].tag = "Some" /\ ~Whole(ret[Reader].v)
    /\ \E k \in 1..width : ret[Reader].v[k] = ctor.value
    /\ \E k \in 1..width : ret[Reader].v[k] \in written[idx[Reader]]

\* thread t, between calls, makes in this step a call of method o with idx i
Calls(t, o, i) ==
    /\ pc[t] \in {"idle", "done"}
    /\ <<pc[t], op[t], idx[t], ret[t]>> # <<pc'[t], op'[t], idx'[t], ret'[t]>>
    /\ op'[t] = o
    /\ idx'[t] = i

\* what method o returns for the element e it loaded: get wraps it, get_unchecked does not
Returned(o, e) == IF o = "get" THEN Some(e) ELSE e

\* C11: for every idx < len(), get_unchecked(idx) returns the value get(idx) returns
\* wrapped in Some and set_unchecked(idx, v) changes the buffer as set(idx, v) does: run
\* alone on any reachable buffer they agree, and among other threads a call of either
\* family enters the same volatile access, which moves word by word in the same way and
\* returns the same, so that the families differ only in the bounds check.
C11_UncheckedAsCheckedInRange ==
    /\ [](\A i \in 0..(Len(buf) - 1) :
            /\ get(buf, i) = Some(get_unchecked(buf, i))
            /\ \A e \in Patterns(width) : set(buf, i, e) = set_unchecked(buf, i, e))
    /\ [][\A t \in Threads, i \in 0..(Len(buf) - 1) :
            /\ Calls(t, "get", i) \/ Calls(t, "get_unchecked", i)
               => pc'[t] = "load" /\ rem'[t] = 1..width /\ buf' = buf
            /\ Calls(t, "set", i) \/ Calls(t, "set_unchecked", i)
               => /\ pc'[t] = "store" /\ rem'[t] = 1..width /\ buf' = buf
                  /\ \E v \in Values : value'[t] = Bits(v, width)]_vars
    /\ [][\A t \in Threads :
            pc[t] \in {"load", "store"} /\ idx[t] < Len(buf) /\ rem'[t] # rem[t]
            => \E k \in rem[t] :
                  /\ rem'[t] = rem[t] \ {k}
                  /\ pc'[t] = (IF rem'[t] = {} THEN "done" ELSE pc[t])
                  /\ pc[t] = "load"
                     => /\ buf' = buf
                        /\ pc'[t] = "done"
                           => ret'[t] = Returned(op[t],
                                            [tmp[t] EXCEPT ![k] = buf[idx[t] + 1][k]])
                  /\ pc[t] = "store"
                     => /\ buf' = [buf EXCEPT ![idx[t] + 1][k] = value[t][k]]
                        /\ pc'[t] = "done" => ret'[t] = Unit]_vars

\* on the last element, two-word and left torn by overlapping stores, a get has returned
\* Some of what a get_unchecked has returned
C11_Witness ==
    \E t, u \in Threads :
        /\ width = 2 /\ Len(buf) = MaxLen
        /\ pc[t] = "done" /\ op[t] = "get" /\ idx[t] = Len(buf) - 1
        /\ pc[u] = "done" /\ op[u] = "get_unchecked" /\ idx[u] = idx[t]
        /\ ~Whole(ret[u]) /\ ret[u] = buf[idx[u] + 1]
        /\ ret[t] = Some(ret[u])

\* C12: every get, set and len call completes in a bounded number of its own steps
\* whatever the other threads do and whether or not they ever step again: len and the
\* out-of-range calls return in the step that makes them, a volatile access has at
\* most `width` words left, never regains one and never goes back, every other
\* thread's step leaves it where it was, its next word access is enabled in every
\* state (it waits on no one), and under fairness for the caller alone the call the
\* caller has started returns.
C12_CallsComplete ==
    /\ [](\A t \in Threads :
            /\ op[t] = "len" => pc[t] = "done"
            /\ pc[t] \in {"load", "store"}
               => /\ rem[t] # {} /\ rem[t] \subseteq 1..width
                  /\ ENABLED Access(t))
    /\ [][\A t \in Threads :
            pc[t] \in {"load", "store"}
            => /\ rem'[t] \subseteq rem[t]
               /\ pc'[t] = (IF rem'[t] = {} THEN "done" ELSE pc[t])
               /\ rem'[t] = rem[t] => <<op'[t], idx'[t], tmp'[t], ret'[t]>>
                                        = <<op[t], idx[t], tmp[t], ret[t]>>]_vars
    /\ (pc[Caller] \in {"load", "store"}) ~> (pc[Caller] = "done")

\* the caller has returned from a get of a two-word element while the other thread
\* stands half way through a store to the same element
C12_Witness ==
    \E u \in Threads \ {Caller} :
        /\ width = 2
        /\ pc[Caller] = "done" /\ op[Caller] = "get" /\ ret[Caller].tag = "Some"
        /\ pc[u] = "store" /\ idx[u] = idx[Caller] /\ Cardinality(rem[u]) = 1

\* C13: an in-range set(i, v) performs exactly one store, to element i. The call step
\* stores nothing and has every word of the element still to store; each of its steps
\* stores one word of v not stored before into element i and leaves every element
\* j # i and the length as they were; the call returns when no word is left; and
\* nothing but such a step ever changes the buffer. So once the set completes, every
\* other element and the length hold what they held before the call, apart from what
\* other threads' own stores changed.
C13_SetStoresOneElement ==
    /\ [][\A t \in Threads, i \in 0..(Len(buf) - 1) :
            Calls(t, "set", i)
            => pc'[t] = "store" /\ rem'[t] = 1..width /\ buf' = buf]_vars
    /\ [][\A t \in Threads :
            pc[t] = "store" /\ op[t] = "set" /\ rem'[t] # rem[t]
            => /\ idx[t] < Len(buf)
               /\ Len(buf') = Len(buf)
               /\ \A j \in 0..(Len(buf) - 1) : j # idx[t] => buf'[j + 1] = buf[j + 1]
               /\ \E k \in rem[t] :
                     /\ rem'[t] = rem[t] \ {k}
                     /\ buf'[idx[t] + 1] = [buf[idx[t] + 1] EXCEPT ![k] = value[t][k]]
               /\ pc'[t] = (IF rem'[t] = {} THEN "done" ELSE "store")]_vars
    /\ [][buf' # buf
            => \E t \in Threads :
                  pc[t] = "store" /\ op[t] = "set" /\ rem'[t] # rem[t]]_vars

\* set(MaxLen - 1, MaxVal) has completed on a two-word buffer of the largest size built
\* with another value, the other thread having made no call: the last element holds
\* MaxVal and the first one the constructed value
C13_Witness ==
    \E t \in Threads :
        /\ width = 2 /\ Len(buf) = MaxLen /\ MaxLen >= 2
        /\ ctor.kind = "new_with_value" /\ ctor.value # MaxVal
        /\ pc[t] = "done" /\ op[t] = "set" /\ idx[t] = MaxLen - 1
        /\ \A u \in Threads \ {t} : op[u] = "none"
        /\ buf[MaxLen] = Bits(MaxVal, width)
        /\ buf[1] = Bits(ctor.value, width)

\* C14: get, get_unchecked and len are read-only. Whatever the idx, in range or not,
\* the buffer and its length change in no step but a word store of a thread inside
\* set or set_unchecked: not in the call step of get, get_unchecked or len, not in a
\* word load, not in a load past the end. So while no store has been made the buffer
\* is as constructed, and every get(i), however often repeated, has returned the same:
\* Some of the constructed element for i < len(), None otherwise; every in-range
\* get_unchecked(i) that element; every len() the constructed length.
C14_ReadOnly ==
    /\ [][buf' # buf \/ Len(buf') # Len(buf)
            => \E t \in Threads :
                  /\ pc[t] = "store" /\ op[t] \in {"set", "set_unchecked"}
                  /\ rem'[t] # rem[t]]_vars
    /\ [][\A t \in Threads :
            \/ pc[t] = "load" /\ <<rem'[t], pc'[t], ret'[t]>> # <<rem[t], pc[t], ret[t]>>
            \/ \E o \in {"get", "get_unchecked", "len"}, i \in Indices : Calls(t, o, i)
            => buf' = buf]_vars
    /\ [](fresh
            => /\ buf = Construct(ctor, width)
               /\ \A t \in Threads :
                     pc[t] = "done"
                     => /\ op[t] = "get"
                           => ret[t] = IF idx[t] < Len(buf) THEN Some(buf[idx[t] + 1])
                                       ELSE None
                        /\ op[t] = "get_unchecked" /\ idx[t] < Len(buf)
                           => ret[t] = buf[idx[t] + 1]
                        /\ op[t] = "len" => ret[t] = Usize(Len(buf)))

\* with no store made yet on a two-word buffer built with a non-default value, both
\* threads have returned from get of the same element with the same result, equal to
\* the element still in the buffer
C14_Witness ==
    \E t, u \in Threads :
        /\ t # u /\ fresh /\ width = 2 /\ ctor.value # DefaultT
        /\ pc[t] = "done" /\ op[t] = "get" /\ idx[t] < Len(buf)
        /\ pc[u] = "done" /\ op[u] = "get" /\ idx[u] = idx[t]
        /\ ret[t] = ret[u] /\ ret[t] = Some(buf[idx[t] + 1])

\* the value element i holds when every set on it has completed: that of the latest
\* in-range set(i, ..), or the constructed one if there was none
Settled(i) == Bits(IF last[i] = NoVal THEN InitialValue(i) ELSE last[i], width)

\* C15: if no two set calls on the same index overlap, then whenever no set on index i
\* is in progress element i is a whole value, that of the most recent set(i, ..) or the
\* constructed one if there was none, for a one-word and a two-word T alike and
\* whatever gets and sets on other indices are running.
C15_ExclusiveWriterWhole ==
    \A i \in 0..(Len(buf) - 1) :
        (\A t \in Threads : ~(pc[t] = "store" /\ idx[t] = i))
        => Whole(buf[i + 1]) /\ buf[i + 1] = Settled(i)

\* a two-word element holds whole the value of the latest set on it, not the constructed
\* one, while one thread is half way through a get of it and the other half way through
\* a set on another index
C15_Witness ==
    \E t, u \in Threads, i \in 0..(Len(buf) - 1) :
        /\ width = 2 /\ life = "live"
        /\ last[i] # NoVal /\ last[i] # InitialValue(i)
        /\ buf[i + 1] = Bits(last[i], width)
        /\ pc[t] = "load" /\ idx[t] = i /\ Cardinality(rem[t]) = 1
        /\ pc[u] = "store" /\ idx[u] # i /\ Cardinality(rem[u]) = 1

\* C16: for every sequence seq, from_vec(seq) yields a buffer whose length is that of
\* seq, and while no store has been made every len() returns the length of seq and
\* every get(i) returns Some(seq[i]) for i < len() and None for i >= len().
C16_FromVecGet ==
    ctor.kind = "from_vec"
    => /\ life = "live" => Len(buf) = Len(ctor.vec)
       /\ fresh
          => \A t \in Threads :
                pc[t] = "done"
                => /\ op[t] = "len" => ret[t] = Usize(Len(ctor.vec))
                   /\ op[t] = "get"
                      => ret[t] = IF idx[t] < Len(ctor.vec) THEN Some(ctor.vec[idx[t] + 1])
                                  ELSE None

\* on from_vec of a longest sequence of two-word elements whose first and last differ,
\* one get has returned the last element, which is not the first, and another has been
\* turned away just past the end
C16_Witness ==
    \E t, u \in Threads :
        /\ ctor.kind = "from_vec" /\ fresh /\ width = 2
        /\ Len(ctor.vec) = MaxLen /\ ctor.vec[1] # ctor.vec[MaxLen]
        /\ pc[t] = "done" /\ op[t] = "get" /\ idx[t] = MaxLen - 1
        /\ ret[t] = Some(ctor.vec[MaxLen]) /\ ret[t] # Some(ctor.vec[1])
        /\ pc[u] = "done" /\ op[u] = "get" /\ idx[u] = MaxLen /\ ret[u] = None

\* C17: stores made through the buffer are visible in the returned storage. After any
\* sequence of completed set calls, into_inner() returns a sequence of the constructed
\* length whose element i is the value of the last in-range set(i, ..), or the
\* constructed element where there was none; out-of-range sets contribute nothing.
C17_IntoInnerShowsSets ==
    life = "consumed"
    => /\ Len(inner) = ConstructedSize
       /\ \A i \in 0..(ConstructedSize - 1) : inner[i + 1] = Settled(i)

\* into_inner() of a two-word buffer of the largest size has returned the value of a set
\* in its first element and the constructed value, which differs, in its last, one
\* thread having last made an in-range set and the other an out-of-range one
C17_Witness ==
    \E t, u \in Threads :
        /\ life = "consumed" /\ width = 2 /\ ConstructedSize = MaxLen /\ MaxLen >= 2
        /\ last[0] # NoVal /\ last[0] # InitialValue(0) /\ last[MaxLen - 1] = NoVal
        /\ inner[1] = Bits(last[0], width)
        /\ inner[MaxLen] = Bits(InitialValue(MaxLen - 1), width)
        /\ inner[MaxLen] # inner[1]
        /\ op[t] = "set" /\ idx[t] = 0
        /\ op[u] = "set" /\ idx[u] >= MaxLen

\* C18: concurrent sets to different indices do not interfere. When threads run
\* set(i, a) and set(j, b) with i # j, both in range, then under every interleaving of
\* their word stores, for a one-word and a two-word T alike, a thread's completed set
\* has left its value in its element whatever the other is doing, so that after both
\* complete element i holds a and element j holds b; an element no thread set holds the
\* constructed value.
C18_DisjointSetsIndependent ==
    /\ \A t \in Threads :
          pc[t] = "done" /\ op[t] = "set"
          => last[idx[t]] # NoVal /\ buf[idx[t] + 1] = Bits(last[idx[t]], width)
    /\ \A i \in 0..(Len(buf) - 1) :
          (\A t \in Threads : ~(op[t] = "set" /\ idx[t] = i))
          => buf[i + 1] = Construct(ctor, width)[i + 1]

\* both sets have completed on two-word elements and the elements hold the two values,
\* which differ from each other and from the values the elements were constructed with
C18_Witness ==
    \E t, u \in Threads :
        /\ t # u /\ width = 2
        /\ pc[t] = "done" /\ op[t] = "set" /\ pc[u] = "done" /\ op[u] = "set"
        /\ idx[t] # idx[u]
        /\ last[idx[t]] # last[idx[u]]
        /\ last[idx[t]] # InitialValue(idx[t]) /\ last[idx[u]] # InitialValue(idx[u])
        /\ buf[idx[t] + 1] = Bits(last[idx[t]], width)
        /\ buf[idx[u] + 1] = Bits(last[idx[u]], width)

====
